---- MODULE Spec2Model ----
(***************************************************************************)
(* Model of the Personalized Interaction Agent: the mock prediction client *)
(* (kumo/kumo_client.py), the recommendation engine (agent/agent.py), the  *)
(* helpers of agent/utils.py and the Flask endpoint (app/main.py).         *)
(*                                                                         *)
(* Floating-point scores are modelled as integers counting thousandths     *)
(* (0.7 is 700, 0.666 is 666), so that rounding to two decimals is a real  *)
(* conversion.  Text is modelled as a sequence of one-character strings.   *)
(***************************************************************************)
EXTENDS Integers, Sequences, FiniteSets, TLC

VARIABLES users, req, call

vars == <<users, req, call>>

(***************************************************************************)
(* Bounds of the model.                                                    *)
(***************************************************************************)
\* user ids 1..MaxUserId may be rows of the loaded table
MaxUserId == 1
\* the uniform draws sampled around the decision threshold, in thousandths
ScoreRadius == 6
\* number of request slots handled concurrently by the server
NumReqs == 2
\* number of scripted answers of a prediction source
ScriptLen == 2
\* last calendar year of the sampled dates
MaxYear == 2025

(***************************************************************************)
(* Program constants.                                                      *)
(***************************************************************************)
\* agent.py:13, the literal 0.7 in thousandths
Threshold == 700

\* utils.py:8
required_fields ==
    <<"user_id", "age", "gender", "last_active", "interactions", "purchases">>

\* kumo_client.py:14-18, the list random.choice draws from
ActionChoices == <<"offer_discount", "recommend_product", "send_message">>

Range(s) == {s[i] : i \in DOMAIN s}

\* Python's None, as returned by dict.get for an absent key
None == [None |-> TRUE]

\* no direct call of a function of the package is in progress
NoCall == [fn |-> "none"]

(***************************************************************************)
(* round(x, 2) of Python on a double x = t/1000.  round() is correctly     *)
(* rounded on the exact binary value of the double, so a decimal "tie"     *)
(* t % 10 = 5 goes up or down according to which side of the tie the       *)
(* double lies on (half-to-even only for the exactly representable         *)
(* 0.125, 0.375, 0.625, 0.875).  TiesUp lists the ties in 0..1000 that     *)
(* round() sends up.                                                       *)
(***************************************************************************)
TiesUp ==
    {5, 25, 35, 55, 65, 85, 95, 115, 135, 165, 195, 225, 255, 265, 275, 315,
     325, 335, 375, 385, 395, 405, 445, 455, 465, 505, 515, 525, 535, 545,
     555, 635, 645, 655, 665, 675, 685, 755, 765, 775, 785, 795, 805, 875,
     885, 895, 905, 915, 925, 935}

Round2(t) ==
    LET q == t \div 10
        r == t % 10
    IN  IF r < 5 THEN q * 10
        ELSE IF r > 5 THEN (q + 1) * 10
        ELSE IF t \in TiesUp THEN (q + 1) * 10
        ELSE q * 10

(***************************************************************************)
(* kumo/kumo_client.py: KumoClient.predict                                 *)
(***************************************************************************)
\* the values random.uniform(0, 1) is sampled at: both ends of [0,1] and a
\* window around the threshold
UniformDraws ==
    {0, 1000} \cup ((Threshold - ScoreRadius)..(Threshold + ScoreRadius))

\* the set of predictions one call can return; the features are ignored
KumoPredict(user_features) ==
    {[engagement_score |-> Round2(u), recommended_action |-> a] :
        u \in UniformDraws, a \in Range(ActionChoices)}

(***************************************************************************)
(* agent/agent.py: PersonalizedAgent.recommend, statement by statement     *)
(***************************************************************************)
KeyError(k) == [exception |-> "KeyError", key |-> k]

Ok(v) == [ok |-> TRUE, value |-> v]
Raise(e) == [ok |-> FALSE, error |-> e]

\* SelectAction with >= in place of > (used to test C1)
SelectActionGe(prediction) ==
    IF "engagement_score" \notin DOMAIN prediction
    THEN Raise(KeyError("engagement_score"))
    ELSE IF prediction["engagement_score"] >= Threshold
         THEN IF "recommended_action" \notin DOMAIN prediction
              THEN Raise(KeyError("recommended_action"))
              ELSE Ok(prediction["recommended_action"])
         ELSE Ok("send_message")

\* agent.py:13.  The conditional expression evaluates its condition first
\* and reads recommended_action only when the condition is true.
SelectAction(prediction) ==
    IF "engagement_score" \notin DOMAIN prediction
    THEN Raise(KeyError("engagement_score"))
    ELSE IF prediction["engagement_score"] > Threshold
         THEN IF "recommended_action" \notin DOMAIN prediction
              THEN Raise(KeyError("recommended_action"))
              ELSE Ok(prediction["recommended_action"])
         ELSE Ok("send_message")

\* BuildRecommendation with the score rounded on the way out (used to
\* test C3)
BuildRecommendationRounded(user_data, action, prediction) ==
    IF "user_id" \notin DOMAIN user_data
    THEN Raise(KeyError("user_id"))
    ELSE Ok([user_id |-> user_data["user_id"],
             action |-> action,
             score |-> Round2(prediction["engagement_score"])])

\* BuildRecommendation with user_data.get("user_id", 0): a missing user_id
\* is defaulted (used to test C6)
BuildRecommendationDefaulted(user_data, action, prediction) ==
    Ok([user_id |-> IF "user_id" \in DOMAIN user_data
                    THEN user_data["user_id"] ELSE 0,
        action |-> action,
        score |-> prediction["engagement_score"]])

\* agent.py:14-18.  The dict display evaluates user_data["user_id"] first.
BuildRecommendation(user_data, action, prediction) ==
    IF "user_id" \notin DOMAIN user_data
    THEN Raise(KeyError("user_id"))
    ELSE Ok([user_id |-> user_data["user_id"],
             action |-> action,
             score |-> prediction["engagement_score"]])

(***************************************************************************)
(* A prediction source as recommend sees it: a script of answers, one per  *)
(* call of predict.  An answer is a prediction (Ok) or a failure (Raise).  *)
(* self.kumo is an attribute set in __init__ (agent.py:5); a test double   *)
(* put in its place may answer differently from KumoClient.                *)
(***************************************************************************)
\* one call of self.kumo.predict at script position pos
SourceCall(script, pos) == [outcome |-> script[pos + 1], pos |-> pos + 1]

Returned(v, n) == [status |-> "returned", value |-> v, calls |-> n]
Raised(e, n) == [status |-> "raised", error |-> e, calls |-> n]

\* the statements of recommend after the prediction is obtained
Decide(user_data, prediction, n) ==
    LET sel == SelectAction(prediction)
    IN  IF ~sel.ok THEN Raised(sel.error, n)
        ELSE LET b == BuildRecommendation(user_data, sel.value, prediction)
             IN  IF ~b.ok THEN Raised(b.error, n) ELSE Returned(b.value, n)

\* recommend with one retry of a failed predict (used to test C8)
recommendRetry(user_data, script) ==
    LET p == SourceCall(script, 0)
        q == IF p.outcome.ok THEN p ELSE SourceCall(script, p.pos)
    IN  IF ~q.outcome.ok
        THEN Raised(q.outcome.error, q.pos)
        ELSE Decide(user_data, q.outcome.value, q.pos)

\* agent.py:7-18, one whole invocation
recommend(user_data, script) ==
    LET p == SourceCall(script, 0)
    IN  IF ~p.outcome.ok
        THEN Raised(p.outcome.error, p.pos)
        ELSE Decide(user_data, p.outcome.value, p.pos)

(***************************************************************************)
(* agent/utils.py                                                          *)
(***************************************************************************)
\* utils.py:35-43
format_recommendation_output(user_id, action, score) ==
    [user_id |-> user_id, action |-> action, engagement_score |-> Round2(score)]

(***************************************************************************)
(* agent/utils.py: validate_user_data                                      *)
(***************************************************************************)
\* the loop of utils.py:9-12 from index i on
RECURSIVE ValidateFrom(_, _)
ValidateFrom(user_data, i) ==
    IF i > Len(required_fields) THEN TRUE
    ELSE IF required_fields[i] \notin DOMAIN user_data THEN FALSE
    ELSE ValidateFrom(user_data, i + 1)

\* validate_user_data with the loop started one field late (used to
\* test C2)
validate_user_data_SkipFirst(user_data) == ValidateFrom(user_data, 2)

\* utils.py:3-12
validate_user_data(user_data) == ValidateFrom(user_data, 1)

(***************************************************************************)
(* agent/utils.py: parse_date and days_since_last_active                   *)
(***************************************************************************)
DigitChars == <<"0", "1", "2", "3", "4", "5", "6", "7", "8", "9">>

IsDigit(c) == c \in Range(DigitChars)

DigitVal(c) == CHOOSE i \in 0..9 : DigitChars[i + 1] = c

RECURSIVE NumVal(_)
NumVal(cs) ==
    IF cs = << >> THEN 0
    ELSE 10 * NumVal(SubSeq(cs, 1, Len(cs) - 1)) + DigitVal(cs[Len(cs)])

\* strptime's pattern for %m: 1[0-2] | 0[1-9] | [1-9]
MonthToken(cs) ==
    \/ /\ Len(cs) = 2
       /\ \/ cs[1] = "1" /\ cs[2] \in {"0", "1", "2"}
          \/ cs[1] = "0" /\ IsDigit(cs[2]) /\ cs[2] # "0"
    \/ Len(cs) = 1 /\ IsDigit(cs[1]) /\ cs[1] # "0"

\* strptime's pattern for %d: 3[0-1] | [1-2]\d | 0[1-9] | [1-9] | " "[1-9]
DayToken(cs) ==
    \/ /\ Len(cs) = 2
       /\ \/ cs[1] = "3" /\ cs[2] \in {"0", "1"}
          \/ cs[1] \in {"1", "2"} /\ IsDigit(cs[2])
          \/ cs[1] \in {"0", " "} /\ IsDigit(cs[2]) /\ cs[2] # "0"
    \/ Len(cs) = 1 /\ IsDigit(cs[1]) /\ cs[1] # "0"

IsLeap(y) == y % 4 = 0 /\ (y % 100 # 0 \/ y % 400 = 0)

DaysInMonth(y, m) ==
    IF m = 2 THEN (IF IsLeap(y) THEN 29 ELSE 28)
    ELSE IF m \in {4, 6, 9, 11} THEN 30 ELSE 31

\* the fields strptime("%Y-%m-%d") reads from the text, or none: four
\* digits, "-", a month token, "-", a day token, and nothing after it
Fields(text) ==
    LET n == Len(text)
        lens == {ml \in {1, 2} :
                    /\ n >= 7 + ml
                    /\ \A i \in 1..4 : IsDigit(text[i])
                    /\ text[5] = "-"
                    /\ text[6 + ml] = "-"
                    /\ MonthToken(SubSeq(text, 6, 5 + ml))
                    /\ DayToken(SubSeq(text, 7 + ml, n))}
    IN  {[y |-> NumVal(SubSeq(text, 1, 4)),
          m |-> NumVal(SubSeq(text, 6, 5 + ml)),
          d |-> NumVal(IF text[7 + ml] = " " THEN SubSeq(text, 8 + ml, n)
                       ELSE SubSeq(text, 7 + ml, n))] : ml \in lens}

\* the ValueError parse_date raises in place of strptime's (utils.py:22)
FormatError(date_str) ==
    [exception |-> "ValueError", message |-> "Invalid date format",
     date_str |-> date_str]

\* utils.py:15-22.  strptime and the date constructor raise ValueError for
\* a text that does not match and for a day the month does not have.
parse_date(date_str) ==
    LET fs == {f \in Fields(date_str) :
                  f.y >= 1 /\ f.d >= 1 /\ f.d <= DaysInMonth(f.y, f.m)}
    IN  IF fs = {} THEN Raise(FormatError(date_str))
        ELSE Ok(CHOOSE f \in fs : TRUE)

\* date.toordinal(): days before the year, before the month, and the day
RECURSIVE DaysBeforeMonth(_, _)
DaysBeforeMonth(y, m) ==
    IF m = 1 THEN 0 ELSE DaysBeforeMonth(y, m - 1) + DaysInMonth(y, m - 1)

ToOrdinal(date) ==
    LET p == date.y - 1
    IN  p * 365 + (p \div 4) - (p \div 100) + (p \div 400)
        + DaysBeforeMonth(date.y, date.m) + date.d

\* days_since_last_active with the subtraction reversed (used to test C10)
days_since_last_active_Reversed(last_active_date, today) ==
    LET parsed == parse_date(last_active_date)
    IN  IF ~parsed.ok THEN Raise(parsed.error)
        ELSE Ok(ToOrdinal(parsed.value) - ToOrdinal(today))

\* utils.py:25-32; today is what datetime.date.today() reads from the clock
days_since_last_active(last_active_date, today) ==
    LET parsed == parse_date(last_active_date)
    IN  IF ~parsed.ok THEN Raise(parsed.error)
        ELSE Ok(ToOrdinal(today) - ToOrdinal(parsed.value))

(***************************************************************************)
(* app/main.py: the user table and the endpoint                            *)
(***************************************************************************)
UserIds == 1..MaxUserId

\* the path converter <int:user_id> accepts the non-negative integers
RequestIds == 0..(MaxUserId + 1)

\* the columns of the CSV file: those of a user record
CsvColumns == Range(required_fields)

\* row.to_dict() of the row of user k; every other field holds a number
RowDict(k, cols) == [c \in cols |-> IF c = "user_id" THEN k ELSE 25]

\* main.py:9-10, the tables the load can produce
LoadedTables ==
    {[k \in K |-> RowDict(k, CsvColumns)] : K \in SUBSET UserIds}

\* dict.get with a key of the wrong type, as with a route that hands the
\* id over as text: no key ever matches (used to test C4)
DictGetMiss(d, k) == None

\* dict.get(key): the value, or None
DictGet(d, k) == IF k \in DOMAIN d THEN d[k] ELSE None

\* Python truth value of "not x" for x a dict or None
Not(x) == x = None \/ DOMAIN x = {}

Reqs == 1..NumReqs

Idle == [pc |-> "idle"]

\* Flask's answer to an exception that leaves the view function
ServerError(r, e) ==
    [pc |-> "done", user_id |-> req[r].user_id, status |-> 500, body |-> e]

\* the route matches and recommend(user_id) is entered (main.py:12-13)
Receive(r) ==
    /\ req[r].pc = "idle"
    /\ \E uid \in RequestIds :
         req' = [req EXCEPT ![r] = [pc |-> "lookup", user_id |-> uid]]
    /\ UNCHANGED <<users, call>>

\* Lookup with users.pop(user_id, None) in place of users.get(user_id)
\* (used to test C9)
LookupPop(r) ==
    /\ req[r].pc = "lookup"
    /\ LET user_data == DictGet(users, req[r].user_id)
       IN  /\ req' = [req EXCEPT ![r] =
                IF Not(user_data)
                THEN [pc |-> "done", user_id |-> req[r].user_id, status |-> 404,
                      body |-> [error |-> "User not found"]]
                ELSE [pc |-> "predict", user_id |-> req[r].user_id,
                      user_data |-> user_data]]
           /\ users' = [k \in DOMAIN users \ {req[r].user_id} |-> users[k]]
    /\ UNCHANGED call

\* main.py:14-16
Lookup(r) ==
    /\ req[r].pc = "lookup"
    /\ LET user_data == DictGet(users, req[r].user_id)
       IN  req' = [req EXCEPT ![r] =
                IF Not(user_data)
                THEN [pc |-> "done", user_id |-> req[r].user_id, status |-> 404,
                      body |-> [error |-> "User not found"]]
                ELSE [pc |-> "predict", user_id |-> req[r].user_id,
                      user_data |-> user_data]]
    /\ UNCHANGED <<users, call>>

\* main.py:17 enters agent.recommend; agent.py:11 calls KumoClient.predict
Predict(r) ==
    /\ req[r].pc = "predict"
    /\ \E prediction \in KumoPredict(req[r].user_data) :
         req' = [req EXCEPT ![r] =
                   [pc |-> "decide", user_id |-> req[r].user_id,
                    user_data |-> req[r].user_data, prediction |-> prediction]]
    /\ UNCHANGED <<users, call>>

\* agent.py:13
Select(r) ==
    /\ req[r].pc = "decide"
    /\ LET sel == SelectAction(req[r].prediction)
       IN  req' = [req EXCEPT ![r] =
                IF ~sel.ok THEN ServerError(r, sel.error)
                ELSE [pc |-> "build", user_id |-> req[r].user_id,
                      user_data |-> req[r].user_data,
                      prediction |-> req[r].prediction, action |-> sel.value]]
    /\ UNCHANGED <<users, call>>

\* agent.py:14-18; the frame of agent.recommend ends, its locals are gone
Build(r) ==
    /\ req[r].pc = "build"
    /\ LET b == BuildRecommendation(req[r].user_data, req[r].action,
                                    req[r].prediction)
       IN  req' = [req EXCEPT ![r] =
                IF ~b.ok THEN ServerError(r, b.error)
                ELSE [pc |-> "respond", user_id |-> req[r].user_id,
                      user_data |-> req[r].user_data,
                      recommendation |-> b.value]]
    /\ UNCHANGED <<users, call>>

\* main.py:18; jsonify writes the mapping as a JSON object with the same
\* keys and values, the body is kept as that mapping
Respond(r) ==
    /\ req[r].pc = "respond"
    /\ req' = [req EXCEPT ![r] =
                 [pc |-> "done", user_id |-> req[r].user_id, status |-> 200,
                  body |-> req[r].recommendation]]
    /\ UNCHANGED <<users, call>>

\* the response is sent; nothing of the request remains
Finish(r) ==
    /\ req[r].pc = "done"
    /\ req' = [req EXCEPT ![r] = Idle]
    /\ UNCHANGED <<users, call>>

Init ==
    /\ users \in LoadedTables
    /\ req = [r \in Reqs |-> Idle]
    /\ call = NoCall

Next ==
    \E r \in Reqs :
        \/ Receive(r)
        \/ Lookup(r)
        \/ Predict(r)
        \/ Select(r)
        \/ Build(r)
        \/ Respond(r)
        \/ Finish(r)

Spec == Init /\ [][Next]_vars

(***************************************************************************)
(* Direct calls of the package's functions (agent/__init__.py exports      *)
(* them; agent.py:21-24 and tests/test_agent.py call recommend directly).  *)
(* call holds one call: its arguments and what it gave back.               *)
(***************************************************************************)
\* mappings handed to validate_user_data: any subset of the required keys,
\* with or without a foreign key, every value the same number
ValidateInputs ==
    {[k \in K |-> v] : K \in SUBSET (Range(required_fields) \cup {"extra"}),
                       v \in {0, 25}}

\* records handed to recommend directly: with and without user_id
RecommendInputs ==
    {RowDict(k, cols) : k \in UserIds,
                        cols \in {Range(required_fields), {"user_id"}}}
    \cup {[c \in Range(required_fields) \ {"user_id"} |-> 25], << >>}

\* scores a test double may answer with: at the threshold, just above it
\* (not a multiple of 0.01), and outside [0,1]
StubScores == {Threshold, Threshold + 1, 1250}

\* answers of a test double: either field may be missing
StubPredictions ==
    {[k \in K |-> IF k = "engagement_score" THEN s ELSE a] :
        K \in SUBSET {"engagement_score", "recommended_action"},
        s \in StubScores, a \in Range(ActionChoices)}

ConnectionError == [exception |-> "ConnectionError"]

\* what one call of predict can give, by kind of source
Outcomes(kind, user_data) ==
    IF kind = "kumo" THEN {Ok(p) : p \in KumoPredict(user_data)}
    ELSE {Ok(p) : p \in StubPredictions} \cup {Raise(ConnectionError)}

Scripts(kind, user_data) == [1..ScriptLen -> Outcomes(kind, user_data)]

Fmt2(n) == <<DigitChars[(n \div 10) + 1], DigitChars[(n % 10) + 1]>>

\* the text YYYY-MM-DD of three numbers
IsoText(y, m, d) ==
    Fmt2(y \div 100) \o Fmt2(y % 100) \o <<"-">> \o Fmt2(m) \o <<"-">> \o Fmt2(d)

Years == 2024..MaxYear

Date(y, m, d) == [y |-> y, m |-> m, d |-> d]

\* texts that are no YYYY-MM-DD date, and two that strptime accepts
\* although they are not zero-padded
OtherTexts ==
    {<<"2", "0", "2", "5", "/", "0", "8", "/", "1", "0">>,
     <<"1", "0", "-", "0", "8", "-", "2", "0", "2", "5">>,
     <<"n", "o", "t", "-", "a", "-", "d", "a", "t", "e">>,
     <<"2", "0", "2", "5", "-", "1", "3", "-", "0", "1">>,
     <<"2", "0", "2", "5", "-", "0", "8", "-", "1", "0", "1">>,
     <<"2", "0", "2", "5", "-", "0", "8", "-", "0", "0">>,
     <<"2", "0", "2", "5", "-", "8", "-", "1", "0">>,
     <<"2", "0", "2", "5", "-", "0", "8", "-", " ", "9">>,
     << >>}

\* texts handed to days_since_last_active; days 29 to 31 do not exist in
\* every sampled month
DateTexts ==
    {IsoText(y, m, d) : y \in Years, m \in {2, 3, 8, 12},
                        d \in {1, 10, 12, 28, 29, 30, 31}}
    \cup OtherTexts

\* the days the clock may show
Todays ==
    {Date(y, m, d) : y \in Years, m \in {2, 8, 12}, d \in {12, 28}}

CallValidate ==
    /\ call = NoCall
    /\ \E user_data \in ValidateInputs :
         call' = [fn |-> "validate_user_data", user_data |-> user_data,
                  result |-> validate_user_data(user_data),
                  user_data_after |-> user_data]
    /\ UNCHANGED <<users, req>>

CallRecommend ==
    /\ call = NoCall
    /\ \E user_data \in RecommendInputs, kind \in {"kumo", "stub"} :
         \E script \in Scripts(kind, user_data) :
            call' = [fn |-> "recommend", user_data |-> user_data,
                     source |-> kind, script |-> script,
                     result |-> recommend(user_data, script)]
    /\ UNCHANGED <<users, req>>

CallFormat ==
    /\ call = NoCall
    /\ \E user_id \in UserIds, action \in Range(ActionChoices),
          score \in {666, 125, 1000} \cup UniformDraws :
         call' = [fn |-> "format_recommendation_output", user_id |-> user_id,
                  action |-> action, score |-> score,
                  result |-> format_recommendation_output(user_id, action, score)]
    /\ UNCHANGED <<users, req>>

CallDays ==
    /\ call = NoCall
    /\ \E text \in DateTexts, today \in Todays :
         call' = [fn |-> "days_since_last_active", text |-> text,
                  today |-> today,
                  result |-> days_since_last_active(text, today)]
    /\ UNCHANGED <<users, req>>

\* the caller drops the result; the next call can be made
Return ==
    /\ call # NoCall
    /\ call' = NoCall
    /\ UNCHANGED <<users, req>>

NextLib ==
    \/ CallValidate
    \/ CallRecommend
    \/ CallFormat
    \/ CallDays
    \/ Return

SpecLib == Init /\ [][NextLib]_vars

(***************************************************************************)
(* Properties.                                                             *)
(***************************************************************************)
IsRecommendCall == call.fn = "recommend"

\* the answer the single predict call of the recorded recommend call got
FirstAnswer == call.script[1]

\* C1: recommend takes the prediction's recommended_action when the score
\* is strictly above 0.7, and "send_message" for every score at or below
\* 0.7, whatever action the source proposed; so, for a proposal other than
\* "send_message", the action is the proposal if and only if score > 0.7.
C1_DecisionRule ==
    (IsRecommendCall /\ call.result.status = "returned") =>
        LET p == FirstAnswer.value
            action == call.result.value.action
        IN  /\ p.engagement_score > Threshold => action = p.recommended_action
            /\ p.engagement_score <= Threshold => action = "send_message"
            /\ ("recommended_action" \in DOMAIN p
                  /\ p.recommended_action # "send_message")
                 => (action = p.recommended_action
                       <=> p.engagement_score > Threshold)

\* C1 witness: a score of exactly 0.7 with a proposal of offer_discount
\* ends in send_message
C1_Witness ==
    /\ IsRecommendCall
    /\ call.result.status = "returned"
    /\ FirstAnswer.value = [engagement_score |-> Threshold,
                            recommended_action |-> "offer_discount"]
    /\ call.result.value.action = "send_message"

\* C2: validate_user_data returns true exactly when all six required keys
\* are keys of the mapping, whatever the values; it returns a boolean in
\* every case and leaves the mapping as it was.
C2_Validate ==
    call.fn = "validate_user_data" =>
        /\ call.result \in BOOLEAN
        /\ call.result <=> (Range(required_fields) \subseteq DOMAIN call.user_data)
        /\ call.user_data_after = call.user_data

\* C2 witness: only user_id is missing, a foreign key is present, and the
\* answer is false
C2_Witness ==
    /\ call.fn = "validate_user_data"
    /\ DOMAIN call.user_data = (Range(required_fields) \ {"user_id"}) \cup {"extra"}
    /\ call.result = FALSE

\* C3: a recommend call that returns gives a mapping with exactly the keys
\* user_id, action and score, the user_id of the record and the score of
\* the prediction unchanged; with KumoClient as source the score is within
\* [0,1].
C3_Recommendation ==
    (IsRecommendCall /\ call.result.status = "returned") =>
        LET v == call.result.value
        IN  /\ DOMAIN v = {"user_id", "action", "score"}
            /\ v.user_id = call.user_data["user_id"]
            /\ v.score = FirstAnswer.value.engagement_score
            /\ call.source = "kumo" => (0 <= v.score /\ v.score <= 1000)

\* C3 witness: a score that is no multiple of 0.01 comes back as it is
C3_Witness ==
    /\ IsRecommendCall
    /\ call.result.status = "returned"
    /\ call.result.value.score = Threshold + 1
    /\ call.result.value.user_id = 1

\* C4: a finished request for an id in the table has status 200 and an
\* action among the three enumerated ones; a finished request for an id
\* not in the table has status 404 and the body {"error": "User not found"}
\* (so a 404 is given only for an absent id), and the server goes on.
C4_Endpoint ==
    \A r \in Reqs :
        req[r].pc = "done" =>
            /\ req[r].user_id \in DOMAIN users =>
                  /\ req[r].status = 200
                  /\ req[r].body.action \in Range(ActionChoices)
                  /\ req[r].body.user_id = req[r].user_id
            /\ req[r].user_id \notin DOMAIN users =>
                  /\ req[r].status = 404
                  /\ req[r].body = [error |-> "User not found"]
            /\ ENABLED Finish(r)

\* C4 witness: one request answered 200 and another answered 404
C4_Witness ==
    \E r, q \in Reqs :
        /\ req[r].pc = "done" /\ req[r].status = 200
        /\ req[q].pc = "done" /\ req[q].status = 404

\* C5 (as claimed): format_recommendation_output returns a mapping with the
\* keys user_id, action and score, user_id and action as passed and score
\* the given score rounded to two decimals.
C5_FormatKeys ==
    call.fn = "format_recommendation_output" =>
        /\ DOMAIN call.result = {"user_id", "action", "score"}
        /\ call.result.user_id = call.user_id
        /\ call.result.action = call.action
        /\ call.result.score = Round2(call.score)

\* the fields of the input record and of the prediction that recommend
\* reads but does not find
LacksUserId == "user_id" \notin DOMAIN call.user_data
LacksScore == "engagement_score" \notin DOMAIN FirstAnswer.value
LacksAction == "recommended_action" \notin DOMAIN FirstAnswer.value

\* C6 (as claimed): recommend raises a KeyError and returns nothing
\* whenever the record lacks user_id or the prediction lacks
\* engagement_score or recommended_action.
C6_MissingFieldAlwaysRaises ==
    (IsRecommendCall /\ FirstAnswer.ok /\ (LacksUserId \/ LacksScore \/ LacksAction))
        => /\ call.result.status = "raised"
           /\ call.result.error.exception = "KeyError"

\* C6 (amended): recommend raises a KeyError and returns nothing whenever
\* the record lacks user_id, the prediction lacks engagement_score, or it
\* lacks recommended_action while its score is above 0.7; the error names
\* the first missing field in the order engagement_score,
\* recommended_action, user_id.  A prediction that lacks recommended_action
\* with a score at or below 0.7 raises nothing on that account: with
\* user_id present the call returns "send_message".
C6_MissingFieldRaises ==
    (IsRecommendCall /\ FirstAnswer.ok) =>
        LET p == FirstAnswer.value
            needsAction == ~LacksScore /\ p.engagement_score > Threshold
            first == IF LacksScore THEN "engagement_score"
                     ELSE IF needsAction /\ LacksAction THEN "recommended_action"
                     ELSE "user_id"
        IN  /\ (LacksUserId \/ LacksScore \/ (LacksAction /\ needsAction))
                 => call.result = Raised(KeyError(first), 1)
            /\ (LacksAction /\ ~LacksScore /\ ~needsAction /\ ~LacksUserId)
                 => /\ call.result.status = "returned"
                    /\ call.result.value.action = "send_message"

\* C6 witness: the record has no user_id, the prediction is complete, and
\* the call raised KeyError for user_id
C6_Witness ==
    /\ IsRecommendCall
    /\ FirstAnswer.ok
    /\ LacksUserId /\ ~LacksScore /\ ~LacksAction
    /\ call.result = Raised(KeyError("user_id"), 1)

\* C7 (as claimed): the body of every 200 response is the output of
\* format_recommendation_output on the engine's decision.
C7_BodyIsFormatterOutput ==
    \A r \in Reqs :
        (req[r].pc = "done" /\ req[r].status = 200) =>
            req[r].body = format_recommendation_output(
                              req[r].body.user_id, req[r].body.action,
                              req[r].body.score)

\* C8: every invocation of recommend calls the prediction source exactly
\* once and ends by returning or by raising; when that one call fails, the
\* invocation raises the failure of the call itself.
C8_SinglePredictCall ==
    IsRecommendCall =>
        /\ call.result.calls = 1
        /\ call.result.status \in {"returned", "raised"}
        /\ ~FirstAnswer.ok => call.result = Raised(FirstAnswer.error, 1)
        /\ call.result.status = "returned" => FirstAnswer.ok

\* C8 witness: the source fails on the first call and would answer on a
\* second one; the invocation raised the failure
C8_Witness ==
    /\ IsRecommendCall
    /\ ~FirstAnswer.ok
    /\ call.script[2].ok
    /\ call.result = Raised(ConnectionError, 1)

\* C9: no step of request handling changes the user table or a stored
\* record, and a slot whose request is over holds nothing of it.
C9_NoSharedWrites ==
    [][/\ users' = users
       /\ \A r \in Reqs : req'[r].pc = "idle" => req'[r] = Idle]_vars

\* C9 witness: two requests for a stored user are under way at once, one
\* about to respond and one holding a fresh prediction
C9_Witness ==
    \E r, q \in Reqs :
        /\ req[r].pc = "respond"
        /\ req[q].pc = "decide"
        /\ req[r].user_id = req[q].user_id

\* every date of the calendar in the sampled years
CalendarDates ==
    {Date(y, m, d) : y \in Years, m \in 1..12, d \in 1..31} \cap
    {dt \in [y : Years, m : 1..12, d : 1..31] : dt.d <= DaysInMonth(dt.y, dt.m)}

\* the first day of the month after that of a date
NextMonth(dt) ==
    IF dt.m < 12 THEN Date(dt.y, dt.m + 1, 1) ELSE Date(dt.y + 1, 1, 1)

Earlier(a, b) ==
    \/ a.y < b.y
    \/ a.y = b.y /\ a.m < b.m
    \/ a.y = b.y /\ a.m = b.m /\ a.d < b.d

\* the days from a to b, for a not after b, walking the calendar month by
\* month: the days left in a's month, then on from the first of the next
RECURSIVE DaysUntil(_, _)
DaysUntil(a, b) ==
    IF a.y = b.y /\ a.m = b.m THEN b.d - a.d
    ELSE (DaysInMonth(a.y, a.m) - a.d + 1) + DaysUntil(NextMonth(a), b)

\* C10: for a valid YYYY-MM-DD text of date d, days_since_last_active
\* gives the number of days from d to today, counted along the
\* calendar: positive or zero when d is not after today, negative when d
\* is after today; for a text parse_date rejects it raises parse_date's
\* error as it is and gives no number.
C10_DaysSince ==
    call.fn = "days_since_last_active" =>
        /\ \A dt \in CalendarDates :
              call.text = IsoText(dt.y, dt.m, dt.d) =>
                 /\ call.result.ok
                 /\ IF Earlier(call.today, dt)
                    THEN /\ call.result.value = 0 - DaysUntil(call.today, dt)
                         /\ call.result.value < 0
                    ELSE call.result.value = DaysUntil(dt, call.today)
        /\ ~parse_date(call.text).ok =>
              /\ call.result = Raise(FormatError(call.text))
              /\ call.result = parse_date(call.text)

\* C10 witness: "2025-08-10" on 2025-08-12 gives 2
C10_Witness ==
    /\ call.fn = "days_since_last_active"
    /\ call.text = IsoText(2025, 8, 10)
    /\ call.today = Date(2025, 8, 12)
    /\ call.result = Ok(2)

====
